---- MODULE Spec2Model ----
(***************************************************************************)
(* Model of hf_dl.py: parse_hf_url, download_hf_directory and main.        *)
(*                                                                         *)
(* A Python str is a sequence of atoms.  The atom "/" is the slash         *)
(* character; every other atom stands for a non-empty run of characters    *)
(* that holds no slash ("tree", "huggingface.co", "~", "..", "*", ...).    *)
(* None is the record NoneVal, a present value s is Some(s).               *)
(***************************************************************************)
EXTENDS Integers, Sequences, FiniteSets, TLC

VARIABLES
    entry,          \* "main": the script was run; "call": download_hf_directory was called directly
    url,            \* args.url
    local_dir,      \* args.local_dir / parameter local_dir
    output_dir,     \* args.output_dir / parameter output_dir
    repo_id,        \* main's repo_id / parameter repo_id
    directory,      \* main's directory / parameter directory
    pc,             \* control position
    exc,            \* the exception raised last: [kind, msg, origin]
    stdout,         \* the lines printed so far
    request,        \* the arguments of the snapshot_download call, once made
    result,         \* the value download_hf_directory returned
    exit            \* "running", "normal" (returned) or "abnormal" (exception left the entry point)

vars == <<entry, url, local_dir, output_dir, repo_id, directory, pc, exc,
          stdout, request, result, exit>>

----------------------------------------------------------------------------
(* Bounds of the input space *)

MaxSegs == 6        \* most path segments in a generated URL
MaxDirLen == 3      \* most atoms in a directory passed to a direct call

----------------------------------------------------------------------------
(* Optional values *)

NoneVal == [some |-> FALSE, val |-> <<>>]
Some(s) == [some |-> TRUE, val |-> s]

----------------------------------------------------------------------------
(* str methods *)

RECURSIVE lstrip(_)
lstrip(s) == IF s # <<>> /\ Head(s) = "/" THEN lstrip(Tail(s)) ELSE s

RECURSIVE rstrip(_)
rstrip(s) ==
    IF s # <<>> /\ s[Len(s)] = "/" THEN rstrip(SubSeq(s, 1, Len(s) - 1)) ELSE s

\* s.strip("/")
strip(s) == rstrip(lstrip(s))

\* s.find("/"): the first index of a slash, Len(s) + 1 when there is none
RECURSIVE find(_, _)
find(s, i) ==
    IF i > Len(s) THEN Len(s) + 1
    ELSE IF s[i] = "/" THEN i ELSE find(s, i + 1)

\* s.split("/"): always at least one part, parts may be empty
RECURSIVE split(_)
split(s) ==
    LET i == find(s, 1)
    IN  IF i > Len(s) THEN <<s>>
        ELSE <<SubSeq(s, 1, i - 1)>> \o split(SubSeq(s, i + 1, Len(s)))

\* "/".join(parts)
RECURSIVE join(_)
join(parts) ==
    IF parts = <<>> THEN <<>>
    ELSE IF Len(parts) = 1 THEN parts[1]
    ELSE parts[1] \o <<"/">> \o join(Tail(parts))

\* s.replace("/", "_")
replace(s) == [i \in 1..Len(s) |-> IF s[i] = "/" THEN "_" ELSE s[i]]

startswith(s, a) == s # <<>> /\ s[1] = a

----------------------------------------------------------------------------
(* urllib.parse.urlparse, as far as netloc and path go *)

Schemes == {"https:"}

urlparse(u) ==
    LET rest == IF u # <<>> /\ u[1] \in Schemes THEN Tail(u) ELSE u
        hasNetloc == Len(rest) >= 2 /\ rest[1] = "/" /\ rest[2] = "/"
        after == SubSeq(rest, 3, Len(rest))
        i == find(after, 1)
    IN  IF hasNetloc
        THEN [netloc |-> SubSeq(after, 1, i - 1), path |-> SubSeq(after, i, Len(after))]
        ELSE [netloc |-> <<>>, path |-> rest]

----------------------------------------------------------------------------
(* os.path *)

Home == <<"/", "home", "/", "u">>     \* $HOME
Cwd == <<"/", "work">>                \* os.getcwd()

os_path_expanduser(p) ==
    IF ~startswith(p, "~") THEN p
    ELSE LET i == find(p, 2)
         IN  IF i # 2 THEN p      \* "~name": no such user, the path is returned as it is
             ELSE LET r == rstrip(Home) \o SubSeq(p, i, Len(p))
                  IN  IF r = <<>> THEN <<"/">> ELSE r

os_path_join(a, b) ==
    IF startswith(b, "/") THEN b
    ELSE IF a = <<>> \/ a[Len(a)] = "/" THEN a \o b
    ELSE a \o <<"/">> \o b

RECURSIVE normcomps(_, _, _)
normcomps(comps, acc, rooted) ==
    IF comps = <<>> THEN acc
    ELSE LET c == Head(comps)
         IN  IF c = <<>> \/ c = <<".">> THEN normcomps(Tail(comps), acc, rooted)
             ELSE IF c # <<"..">>
                     \/ (~rooted /\ acc = <<>>)
                     \/ (acc # <<>> /\ acc[Len(acc)] = <<"..">>)
                  THEN normcomps(Tail(comps), Append(acc, c), rooted)
             ELSE IF acc # <<>>
                  THEN normcomps(Tail(comps), SubSeq(acc, 1, Len(acc) - 1), rooted)
             ELSE normcomps(Tail(comps), acc, rooted)

os_path_normpath(p) ==
    LET slashes == IF ~startswith(p, "/") THEN 0
                   ELSE IF Len(p) >= 2 /\ p[2] = "/" /\ ~(Len(p) >= 3 /\ p[3] = "/")
                        THEN 2 ELSE 1
        body == join(normcomps(split(p), <<>>, slashes > 0))
        r == [i \in 1..slashes |-> "/"] \o body
    IN  IF r = <<>> THEN <<".">> ELSE r

os_path_abspath(p) ==
    os_path_normpath(IF startswith(p, "/") THEN p ELSE os_path_join(Cwd, p))

----------------------------------------------------------------------------
(* parse_hf_url *)

HfNetloc == <<"huggingface.co">>

Raise(m) == [ok |-> FALSE, repo_id |-> <<>>, directory |-> <<>>, error |-> m]
Return(r, d) == [ok |-> TRUE, repo_id |-> r, directory |-> d, error |-> ""]

\* mutant: the branch segment is kept in the directory
parse_directory_keeps_branch(path_parts) ==
    IF Len(path_parts) > 4 /\ path_parts[3] = <<"tree">>
    THEN join(SubSeq(path_parts, 4, Len(path_parts)))
    ELSE IF Len(path_parts) > 2
    THEN join(SubSeq(path_parts, 3, Len(path_parts)))
    ELSE <<>>

\* mutant: the branch rule also applies to exactly four segments
parse_directory_from_four(path_parts) ==
    IF Len(path_parts) >= 4 /\ path_parts[3] = <<"tree">>
    THEN join(SubSeq(path_parts, 5, Len(path_parts)))
    ELSE IF Len(path_parts) > 2
    THEN join(SubSeq(path_parts, 3, Len(path_parts)))
    ELSE <<>>

parse_directory(path_parts) ==
    IF Len(path_parts) > 4 /\ path_parts[3] = <<"tree">>
    THEN join(SubSeq(path_parts, 5, Len(path_parts)))
    ELSE IF Len(path_parts) > 2
    THEN join(SubSeq(path_parts, 3, Len(path_parts)))
    ELSE <<>>

\* mutant: a repository alone (two segments) is rejected
parse_hf_url_needs_three(u) ==
    LET parsed == urlparse(u)
        path_parts == split(strip(parsed.path))
    IN  IF parsed.netloc = HfNetloc
        THEN IF Len(path_parts) <= 2
             THEN Raise("Invalid Hugging Face URL format")
             ELSE Return(path_parts[1] \o <<"/">> \o path_parts[2],
                         parse_directory(path_parts))
        ELSE Raise("URL must be from huggingface.co")

parse_hf_url(u) ==
    LET parsed == urlparse(u)
        path_parts == split(strip(parsed.path))
    IN  IF parsed.netloc = HfNetloc
        THEN IF Len(path_parts) < 2
             THEN Raise("Invalid Hugging Face URL format")
             ELSE Return(path_parts[1] \o <<"/">> \o path_parts[2],
                         parse_directory(path_parts))
        ELSE Raise("URL must be from huggingface.co")

----------------------------------------------------------------------------
(* download_hf_directory, up to the snapshot_download call *)

\* mutant: the slashes of the directory are kept
default_local_dir_keeps_slashes(r, d) == replace(r) \o <<"_">> \o d

default_local_dir(r, d) == replace(r) \o <<"_">> \o replace(d)

destination(r, d, ld, od) ==
    LET name == IF ld.some THEN ld.val ELSE default_local_dir(r, d)
    IN  IF od.some
        THEN os_path_join(os_path_abspath(os_path_expanduser(od.val)), name)
        ELSE name

\* mutant: the patterns are built before the directory is normalized
allow_patterns_raw(d) == <<d \o <<"/", "**", "/", "*">>, d \o <<"/", "*">>>>

allow_patterns(d) ==
    LET n == strip(d)
    IN  <<n \o <<"/", "**", "/", "*">>, n \o <<"/", "*">>>>

----------------------------------------------------------------------------
(* Printed lines, exceptions *)

Line(tag, text) == [tag |-> tag, text |-> text]

NoExc == [kind |-> "none", msg |-> "", origin |-> "none"]

\* what snapshot_download may raise: network, disk, and the ValueError family
\* (huggingface_hub's validation errors are ValueErrors)
TransferErrors == {"ConnectionError", "OSError", "ValueError"}

\* `except ValueError` in main
CaughtByMain(kind) == kind = "ValueError"

\* mutant: only None counts as no directory
NotDirectory_is_none(d) == FALSE

\* `if not directory` in main
NotDirectory(d) == d = <<>>

----------------------------------------------------------------------------
(* Inputs *)

SegAtoms == {"", "a", "tree"}         \* "" is the empty segment between two slashes

UrlHeads ==
    { <<"https:", "/", "/", "huggingface.co">>,
      <<"https:", "/", "/", "huggingface.co", ":443">>,
      <<"https:", "/", "/", "example.com">>,
      <<"huggingface.co">> }

\* the path "/s1/s2/.../sn"; no segment at all is the empty path
RECURSIVE PathOf(_)
PathOf(segs) ==
    IF segs = <<>> THEN <<>>
    ELSE <<"/">> \o (IF Head(segs) = "" THEN <<>> ELSE <<Head(segs)>>) \o PathOf(Tail(segs))

SegLists == UNION {[1..n -> SegAtoms] : n \in 0..MaxSegs}

ExampleUrl ==
    <<"https:", "/", "/", "huggingface.co", "/", "acme", "/", "widgets", "/", "tree",
      "/", "main", "/", "vae", "/", "blocks">>

Urls == {h \o PathOf(s) : h \in UrlHeads, s \in SegLists} \cup {ExampleUrl}

LocalDirs == {NoneVal, Some(<<"out">>), Some(<<"/", "abs">>), Some(<<>>)}

OutputDirs ==
    {NoneVal, Some(<<"~", "/", "data">>), Some(<<"out">>), Some(<<"/", "srv", "/">>),
     Some(<<"..", "/", "x">>)}

RepoIds == {<<"a", "/", "b">>, <<"acme", "/", "widgets">>}

DirectoryArgs == UNION {[1..n -> {"/", "a"}] : n \in 0..MaxDirLen}

----------------------------------------------------------------------------
(* Initial states: the script started with some command line, or            *)
(* download_hf_directory called with some arguments                         *)

InitMain ==
    /\ entry = "main"
    /\ url \in Urls
    /\ local_dir \in LocalDirs
    /\ output_dir \in OutputDirs
    /\ repo_id = <<>>
    /\ directory = <<>>
    /\ pc = "start"

InitCall ==
    /\ entry = "call"
    /\ url = <<>>
    /\ local_dir \in LocalDirs
    /\ output_dir \in OutputDirs
    /\ repo_id \in RepoIds
    /\ directory \in DirectoryArgs
    /\ pc = "fetch"

Init ==
    /\ (InitMain \/ InitCall)
    /\ exc = NoExc
    /\ stdout = <<>>
    /\ request = NoneVal
    /\ result = NoneVal
    /\ exit = "running"

----------------------------------------------------------------------------
(* main *)

\* repo_id, directory = parse_hf_url(args.url)
ParseUrl ==
    /\ pc = "start"
    /\ LET r == parse_hf_url(url)
       IN  IF r.ok
           THEN /\ repo_id' = r.repo_id
                /\ directory' = r.directory
                /\ pc' = "parsed"
                /\ exc' = exc
           ELSE /\ exc' = [kind |-> "ValueError", msg |-> r.error, origin |-> "parse_hf_url"]
                /\ pc' = "except"
                /\ UNCHANGED <<repo_id, directory>>
    /\ UNCHANGED <<entry, url, local_dir, output_dir, stdout, request, result, exit>>

\* if not directory: two prints and return
MissingDirectory ==
    /\ pc = "parsed"
    /\ NotDirectory(directory)
    /\ stdout' = stdout \o
         << Line("Error: Please specify a directory in the URL", <<>>),
            Line("Example:", <<>>) >>
    /\ pc' = "done"
    /\ exit' = "normal"
    /\ UNCHANGED <<entry, url, local_dir, output_dir, repo_id, directory, exc, request, result>>

\* the two prints before the download_hf_directory call
SelectDirectory ==
    /\ pc = "parsed"
    /\ ~NotDirectory(directory)
    /\ stdout' = stdout \o << Line("Repository:", repo_id), Line("Directory:", directory) >>
    /\ pc' = "fetch"
    /\ UNCHANGED <<entry, url, local_dir, output_dir, repo_id, directory, exc, request, result, exit>>

\* mutant: the handler forgets parser.print_help()
ExceptValueError_no_help ==
    /\ pc = "except"
    /\ CaughtByMain(exc.kind)
    /\ stdout' = stdout \o << Line("Error:", <<exc.msg>>) >>
    /\ pc' = "done"
    /\ exit' = "normal"
    /\ UNCHANGED <<entry, url, local_dir, output_dir, repo_id, directory, exc, request, result>>

\* except ValueError as e: print the message, print the help
ExceptValueError ==
    /\ pc = "except"
    /\ CaughtByMain(exc.kind)
    /\ stdout' = stdout \o << Line("Error:", <<exc.msg>>), Line("help", <<>>) >>
    /\ pc' = "done"
    /\ exit' = "normal"
    /\ UNCHANGED <<entry, url, local_dir, output_dir, repo_id, directory, exc, request, result>>

----------------------------------------------------------------------------
(* download_hf_directory *)

\* from the entry of the function to the snapshot_download call
IssueDownload ==
    /\ pc = "fetch"
    /\ LET dest == destination(repo_id, directory, local_dir, output_dir)
       IN  /\ stdout' = Append(stdout,
                 Line("Downloading from", repo_id \o <<"/">> \o strip(directory) \o <<"/", " to ">> \o dest))
           /\ request' = Some([repo_id |-> repo_id,
                               allow_patterns |-> allow_patterns(directory),
                               local_dir |-> dest])
    /\ pc' = "transfer"
    /\ UNCHANGED <<entry, url, local_dir, output_dir, repo_id, directory, exc, result, exit>>

\* snapshot_download returns the path; it is printed and returned
TransferSucceeds ==
    /\ pc = "transfer"
    /\ stdout' = Append(stdout, Line("Download completed! Files saved to:", request.val.local_dir))
    /\ result' = Some(request.val.local_dir)
    /\ pc' = "done"
    /\ exit' = "normal"
    /\ UNCHANGED <<entry, url, local_dir, output_dir, repo_id, directory, exc, request>>

\* snapshot_download raises: except Exception prints and re-raises; the
\* exception then reaches main's try block, or the caller of a direct call
TransferFails ==
    /\ pc = "transfer"
    /\ \E kind \in TransferErrors :
         /\ exc' = [kind |-> kind, msg |-> "transfer failed", origin |-> "snapshot_download"]
         /\ stdout' = Append(stdout, Line("Error downloading files:", <<"transfer failed">>))
         /\ IF entry = "main" /\ CaughtByMain(kind)
            THEN pc' = "except" /\ exit' = exit
            ELSE pc' = "done" /\ exit' = "abnormal"
    /\ UNCHANGED <<entry, url, local_dir, output_dir, repo_id, directory, request, result>>

----------------------------------------------------------------------------

Next ==
    \/ ParseUrl
    \/ MissingDirectory
    \/ SelectDirectory
    \/ ExceptValueError
    \/ IssueDownload
    \/ TransferSucceeds
    \/ TransferFails

Spec == Init /\ [][Next]_vars

----------------------------------------------------------------------------
(* Vocabulary of the properties *)

HfHead == <<"https:", "/", "/", "huggingface.co">>

AllSlash(u, i, j) == \A k \in i..j : u[k] = "/"

Tags == {stdout[i].tag : i \in 1..Len(stdout)}

EndsWith(s, t) == Len(s) >= Len(t) /\ SubSeq(s, Len(s) - Len(t) + 1, Len(s)) = t

\* the number of path segments once leading and trailing slashes are dropped
SegmentCount(p) ==
    LET nonSlash == {k \in 1..Len(p) : p[k] # "/"}
    IN  IF nonSlash = {} THEN 0
        ELSE LET lo == CHOOSE k \in nonSlash : \A m \in nonSlash : k <= m
                 hi == CHOOSE k \in nonSlash : \A m \in nonSlash : k >= m
             IN  1 + Cardinality({k \in lo..hi : p[k] = "/"})

\* the URL is one parse_hf_url rejects: another host, or fewer than two segments
Malformed(u) ==
    \/ urlparse(u).netloc # HfNetloc
    \/ SegmentCount(urlparse(u).path) < 2

ParseRaised == exc.origin = "parse_hf_url"

\* https://huggingface.co/<ns>/<repo>/tree/<branch>/<d1>/.../<dn>, n >= 1, dn not empty
IsTreeUrl(u) ==
    /\ Len(u) >= 14
    /\ SubSeq(u, 1, 4) = HfHead
    /\ \A k \in {5, 7, 9, 11, 13} : u[k] = "/"
    /\ \A k \in {6, 8, 12} : u[k] # "/"
    /\ u[10] = "tree"
    /\ u[Len(u)] # "/"

\* https://huggingface.co/<ns>/<repo>/tree/<branch>, trailing slashes allowed
IsFourSegmentTreeUrl(u) ==
    /\ Len(u) >= 12
    /\ SubSeq(u, 1, 4) = HfHead
    /\ \A k \in {5, 7, 9, 11} : u[k] = "/"
    /\ \A k \in {6, 8, 12} : u[k] # "/"
    /\ u[10] = "tree"
    /\ AllSlash(u, 13, Len(u))

\* n is d without its leading and trailing slashes
NormalizedOf(d, n) ==
    \E i \in 1..Len(d) + 1, j \in 0..Len(d) :
        /\ n = SubSeq(d, i, j)
        /\ AllSlash(d, 1, i - 1)
        /\ AllSlash(d, j + 1, Len(d))
        /\ n # <<>> => n[1] # "/" /\ n[Len(n)] # "/"

\* base is a strict ancestor of the absolute path dest
StrictAncestor(base, dest) ==
    /\ startswith(dest, "/")
    /\ Len(dest) > Len(base)
    /\ SubSeq(dest, 1, Len(base)) = base
    /\ base[Len(base)] = "/" \/ dest[Len(base) + 1] = "/"
    /\ \E k \in Len(base) + 1..Len(dest) : dest[k] # "/"

----------------------------------------------------------------------------
(* C1: for a URL https://huggingface.co/ns/repo/tree/branch/d1/.../dn with  *)
(* n >= 1, parse_hf_url returns repo_id "ns/repo" and the directory         *)
(* "d1/.../dn"; the branch is not part of the result.                       *)
C1_TreeUrlParsed ==
    (entry = "main" /\ pc # "start" /\ IsTreeUrl(url)) =>
        /\ ~ParseRaised
        /\ repo_id = <<url[6], "/", url[8]>>
        /\ directory = SubSeq(url, 14, Len(url))

C1_Witness ==
    /\ entry = "main" /\ pc = "parsed" /\ IsTreeUrl(url)
    /\ directory = <<"a", "/", "tree">>

(* C2: parse_hf_url raises ValueError exactly for the URLs of another host  *)
(* and the URLs of the expected host with fewer than two path segments;     *)
(* for every other URL it returns a pair.                                   *)
C2_RaisesIffMalformed ==
    (entry = "main" /\ pc # "start") =>
        /\ ParseRaised <=> Malformed(url)
        /\ ParseRaised => exc.kind = "ValueError"
        /\ ~ParseRaised =>
              /\ repo_id # <<>>
              /\ pc = "parsed" => exc = NoExc

C2_Witness ==
    /\ entry = "main" /\ pc = "except" /\ ParseRaised
    /\ urlparse(url).netloc = HfNetloc
    /\ SegmentCount(urlparse(url).path) = 1

(* C3: in a run of main, snapshot_download is never called when parsing     *)
(* failed or the parsed directory is empty; the run of a two-segment URL    *)
(* ends without a request.                                                  *)
C3_NoDownloadWithoutDirectory ==
    (entry = "main" /\ (Malformed(url) \/ (pc # "start" /\ directory = <<>>))) =>
        ~request.some

C3_Witness ==
    /\ entry = "main" /\ pc = "done" /\ ~Malformed(url)
    /\ SegmentCount(urlparse(url).path) = 2
    /\ directory = <<>> /\ ~request.some

(* C4: every failure of the snapshot_download call is logged and leaves     *)
(* download_hf_directory and main as an exception: the run never ends       *)
(* normally after a failed transfer.                                        *)
C4_TransferFailurePropagates ==
    (exc.origin = "snapshot_download") =>
        /\ "Error downloading files:" \in Tags
        /\ pc = "done" => exit = "abnormal"

(* C5: without local_dir, the destination folder name is repo_id with "/"   *)
(* replaced by "_", then "_", then directory with "/" replaced by "_"; for  *)
(* the URL .../acme/widgets/tree/main/vae/blocks it is                      *)
(* acme_widgets_vae_blocks.                                                 *)
C5_ExpectedName ==
    [i \in 1..(Len(repo_id) + 1 + Len(directory)) |->
        IF i <= Len(repo_id) THEN (IF repo_id[i] = "/" THEN "_" ELSE repo_id[i])
        ELSE IF i = Len(repo_id) + 1 THEN "_"
        ELSE IF directory[i - Len(repo_id) - 1] = "/" THEN "_"
        ELSE directory[i - Len(repo_id) - 1]]

C5_DefaultFolderName ==
    (request.some /\ ~local_dir.some) =>
        /\ EndsWith(request.val.local_dir, C5_ExpectedName)
        /\ ~output_dir.some => request.val.local_dir = C5_ExpectedName
        /\ url = ExampleUrl =>
              EndsWith(request.val.local_dir,
                       <<"acme", "_", "widgets", "_", "vae", "_", "blocks">>)

C5_Witness ==
    /\ url = ExampleUrl /\ request.some /\ ~local_dir.some /\ ~output_dir.some
    /\ repo_id = <<"acme", "/", "widgets">>
    /\ directory = <<"vae", "/", "blocks">>

(* C6: with output_dir, the destination passed to snapshot_download is the  *)
(* resolved output_dir joined with the folder name, an absolute path of     *)
(* which output_dir is a strict ancestor, for every folder name.            *)
C6_DestinationUnderOutputDir ==
    (request.some /\ output_dir.some) =>
        LET base == os_path_abspath(os_path_expanduser(output_dir.val))
        IN  /\ StrictAncestor(base, request.val.local_dir)
            /\ local_dir.some =>
                  request.val.local_dir = rstrip(base) \o <<"/">> \o local_dir.val

(* C7: a run of main that ends on a malformed URL or on a missing           *)
(* directory prints a diagnostic and the help text, and ends normally.      *)
C7_HelpOnEveryAbort ==
    (entry = "main" /\ pc = "done" /\ (Malformed(url) \/ directory = <<>>)) =>
        /\ exit = "normal"
        /\ \E t \in Tags : t \in {"Error:", "Error: Please specify a directory in the URL"}
        /\ "help" \in Tags

(* C7 amended: on a malformed URL the run prints the error message and the  *)
(* help text; on a missing directory it prints the error message and an     *)
(* example URL, and no help text; in both cases it ends normally.           *)
C7_HelpOnMalformedOnly ==
    (entry = "main" /\ pc = "done" /\ (Malformed(url) \/ directory = <<>>)) =>
        /\ exit = "normal"
        /\ Malformed(url) =>
              /\ Len(stdout) = 2
              /\ stdout[1].tag = "Error:"
              /\ stdout[2].tag = "help"
        /\ ~Malformed(url) =>
              /\ Len(stdout) = 2
              /\ stdout[1].tag = "Error: Please specify a directory in the URL"
              /\ stdout[2].tag = "Example:"

C7_Witness ==
    /\ entry = "main" /\ pc = "done" /\ Malformed(url)
    /\ urlparse(url).netloc = HfNetloc
    /\ "help" \in Tags

(* C8: for a URL https://huggingface.co/ns/repo/tree/branch (exactly four   *)
(* segments) parse_hf_url returns the directory "tree/branch", and main     *)
(* goes on to call snapshot_download for that directory.                    *)
C8_FourSegmentQuirk ==
    (entry = "main" /\ pc # "start" /\ IsFourSegmentTreeUrl(url)) =>
        /\ ~ParseRaised
        /\ directory = <<"tree", "/", url[12]>>
        /\ pc \in {"parsed", "fetch", "transfer", "done", "except"}
        /\ pc \in {"transfer", "done", "except"} =>
              /\ request.some
              /\ request.val.allow_patterns[2] = <<"tree", "/", url[12], "/", "*">>

C8_Witness ==
    /\ entry = "main" /\ IsFourSegmentTreeUrl(url) /\ request.some
    /\ directory = <<"tree", "/", "a">>

(* C9: when snapshot_download is called and the directory is not empty      *)
(* once its leading and trailing slashes are dropped, the patterns are      *)
(* exactly "<dir>/*" and "<dir>/**/*" with <dir> the normalized directory.  *)
C9_TwoPatterns ==
    request.some =>
        \A n \in {SubSeq(directory, i, j) : i \in 1..Len(directory) + 1, j \in 0..Len(directory)} :
            (NormalizedOf(directory, n) /\ n # <<>>) =>
                /\ Len(request.val.allow_patterns) = 2
                /\ {request.val.allow_patterns[k] : k \in 1..2}
                     = {n \o <<"/", "*">>, n \o <<"/", "**", "/", "*">>}

C9_Witness ==
    /\ request.some
    /\ directory = <<"/", "a", "/">>

(* C10: the directory parse_hf_url returns has no leading and no trailing   *)
(* slash, also for a path with consecutive slashes.                         *)
C10_DirectoryNormalized ==
    (entry = "main" /\ pc # "start" /\ ~ParseRaised /\ directory # <<>>) =>
        /\ directory[1] # "/"
        /\ directory[Len(directory)] # "/"

====
